---- MODULE Spec2Model ----
(***************************************************************************)
(* Read-through / write-invalidate cache decorators of go-movie-planner:   *)
(*   CacheAdapter       (in-process map + mutex, keyed by title)           *)
(*   RedisCacheAdapter  (Redis keyspace "movie:<id>", keyed by id)         *)
(* Each goroutine runs one decorator call at a time; a call is a sequence  *)
(* of steps, one per access to shared state (mutex, map, Redis, wrapped    *)
(* repository), so that calls of different goroutines interleave.          *)
(***************************************************************************)
EXTENDS Integers, Sequences, FiniteSets, TLC

\* ------------------------------------------------------------------ bounds
MaxTime == 2      \* the clock runs 0..MaxTime
TTL == 1          \* time-to-live handed to the constructor, in clock ticks
MaxCalls == 3     \* decorator calls entered in one run
MaxOverlap == 1   \* calls entered while another call is in flight, in one run
LiveCalls == 2    \* calls of RedisCacheAdapter entered in one run under fair scheduling

Procs == {"g1", "g2"}
Titles == {"Inception", "Matrix"}
Ids == {1, 2}     \* the ids the SERIAL column of movies hands out

\* ------------------------------------------------------------------ errors
Nil == "nil"
ErrNotFound == "the requested resource was not found"
ErrProviderFailure == "the external provider failed to respond"
ErrCanceled == "context canceled"
ErrDB == "pgx error"

\* ------------------------------------------------------------------ entities
\* float64 rating in tenths; nan marks math.NaN (a float8 column can hold it)
Rating(x) == [nan |-> FALSE, x10 |-> x]
NaN == [nan |-> TRUE, x10 |-> 0]

\* CustomDate{time.Time}: the calendar day and the time of day within it
Date(d) == [day |-> d, tod |-> 0]

\* the day 9999-12-31: the last day whose "2006-01-02" form has a four-digit year
\* and so parses back under the same layout
LastDay == 2

\* *ports.Movie; nil |-> TRUE is the nil pointer
NilMovie == [nil |-> TRUE, ID |-> 0, Title |-> "", Rating |-> Rating(0), ReleaseDate |-> Date(0)]
Movie(id, title, rating, date) ==
    [nil |-> FALSE, ID |-> id, Title |-> title, Rating |-> rating, ReleaseDate |-> date]

\* what the remote catalog may answer for a title (it changes outside the program)
CatalogAnswers(title) == {Movie(0, title, Rating(88), Date(1)), Movie(0, title, Rating(42), Date(1))}

\* the column values of one row of table movies (id apart)
Row(title, rating, date) == [Title |-> title, Rating |-> rating, ReleaseDate |-> date]
InitRow == Row("A", Rating(88), Date(1))
Rows == {InitRow, Row("B", Rating(42), Date(2)), Row("C", NaN, Date(1)),
         Row("D", Rating(60), Date(LastDay + 1))}
NoRow == [found |-> FALSE, row |-> Row("", Rating(0), Date(0))]

\* cacheEntry and the zero value a map read yields for a missing key
NoEntry == [found |-> FALSE, movie |-> NilMovie, createdAt |-> 0]
Entry(m, t) == [found |-> TRUE, movie |-> m, createdAt |-> t]

VARIABLES
    variant,    \* the decorator under call: "tmdb" (CacheAdapter) or "postgres" (RedisCacheAdapter)
    now,        \* the wall clock
    cache,      \* CacheAdapter.cache
    mu,         \* CacheAdapter.mu: the goroutine holding it, or ""
    redis,      \* the Redis keyspace behind RedisCacheAdapter.client
    db,         \* table movies behind PostgresAdapter
    nextId,     \* the next value of the SERIAL id column
    fr,         \* per goroutine: the frame of its current (or last finished) call
    origin,     \* per Redis key: the *Movie the call that wrote the value had in hand
    last,       \* what the call that returned most recently was and did
    invalFault, \* a cache invalidation (DEL) has faulted in this run
    ncalls,     \* calls entered so far
    novl,       \* calls entered so far while another call was in flight
    http,       \* the HTTP exchange served last: the request and its response
    readAt      \* per key: when the wrapped repository was read for the entry stored last

vars == <<variant, now, cache, mu, redis, db, nextId, fr, origin, last, invalFault, ncalls, novl,
          http, readAt>>

\* ------------------------------------------------------------------ JSON
\* variant: the id field is left out of the document (a `json:"-"` tag on ID)
jsonMarshal_DropsID(m) ==
    [ok |-> ~m.Rating.nan,
     data |-> [id |-> 0, title |-> m.Title, rating |-> m.Rating.x10,
               release_date |-> m.ReleaseDate.day]]

\* json.Marshal(movie): CustomDate.MarshalJSON formats the day ("2006-01-02") and
\* drops the time of day; a NaN rating is an UnsupportedValueError
jsonMarshal(m) ==
    [ok |-> ~m.Rating.nan,
     data |-> [id |-> m.ID, title |-> m.Title, rating |-> m.Rating.x10,
               release_date |-> m.ReleaseDate.day]]

\* json.Unmarshal(data, &movie): CustomDate.UnmarshalJSON parses the day, midnight
\* UTC; time.Parse fails on a year of more than four digits
jsonUnmarshal(d) ==
    [ok |-> d.release_date <= LastDay,
     movie |-> Movie(d.id, d.title, Rating(d.rating), [day |-> d.release_date, tod |-> 0])]

\* a value of the keyspace, and a key that is not set
NoValue == [found |-> FALSE, data |-> jsonMarshal(NilMovie).data, setAt |-> 0, ttl |-> 0]
Value(d, t, ttl) == [found |-> TRUE, data |-> d, setAt |-> t, ttl |-> ttl]

\* ------------------------------------------------------------------ store values
\* variants of the freshness test: one that lets an entry live one tick less, one
\* that never lets it expire
Fresh_TooStrict(entry, t) == entry.found /\ t - entry.createdAt < TTL - 1
Fresh_NeverExpires(entry, t) == entry.found

\* found && time.Since(entry.createdAt) < a.ttl
Fresh(entry, t) == entry.found /\ t - entry.createdAt < TTL

\* key := fmt.Sprintf("movie:%d", id)
CacheKey(id) == "movie:" \o ToString(id)
RedisKeys == {CacheKey(i) : i \in Ids}

\* a key SET at setAt with expiry ttl answers GET until the expiry has passed
Live(v, t) == v.found /\ t - v.setAt < v.ttl

\* ------------------------------------------------------------------ frames
\* what a call hands back: (*Movie, error), (int, error), ([]*Movie, error) or error
Ret(m, e) == [movie |-> m, err |-> e, id |-> 0, list |-> {}]
RetId(i, e) == [movie |-> NilMovie, err |-> e, id |-> i, list |-> {}]
RetList(l, e) == [movie |-> NilMovie, err |-> e, id |-> 0, list |-> l]
NoRet == Ret(NilMovie, Nil)

\* what is kept of a call once it has returned
NoCall == [op |-> "none", title |-> "", id |-> 0, arg |-> NilMovie, ok |-> TRUE,
           fault |-> FALSE, cached |-> FALSE, writeFault |-> FALSE]
Summary(f) == [op |-> f.op, title |-> f.title, id |-> f.id,
               arg |-> IF f.op = "UpdateMovie" THEN f.arg ELSE NilMovie, ok |-> f.ret.err = Nil,
               fault |-> f.fault, cached |-> f.cached, writeFault |-> f.writeFault]

\* the store's entry for a key as a lookup finds it: present or not, when it was
\* written, and the *Movie the call that wrote it had in hand
NoSeen == [found |-> FALSE, writtenAt |-> 0, movie |-> NilMovie]
Seen(found, t, m) == [found |-> found, writtenAt |-> t, movie |-> m]

\* the frame of a call that has just been entered. Beside the locals of the Go
\* function it records what the call did: calls to the wrapped repository (calls),
\* commands sent to the cache backend (cacheOps), a faulted cache command (fault),
\* a cache read that faulted or yielded a value that does not decode (readFault),
\* the time of the cache lookup (at) and what the store held for the key then (seen), the last answer of the wrapped repository
\* (nextRet), the call returned before (prev), the stores as they were on entry
\* (snap), whether they held an unexpired entry for the key then (cached),
\* whether the call has run beside no other call so far (alone), and whether
\* another call was inside the wrapped repository when this one took the mutex
\* for its lookup (during, kept until the lookup turns out a miss), when the wrapped repository answered (fetchedAt), and
\* whether encoding or storing the entity for the cache failed (writeFault)
Frame(op, pc, title, id, arg, prev, snap, alone, cached) ==
    [pc |-> pc, op |-> op, title |-> title, id |-> id, arg |-> arg,
     movie |-> NilMovie, entry |-> NoEntry, ret |-> NoRet, nextRet |-> NoRet,
     calls |-> 0, cacheOps |-> 0, fault |-> FALSE, readFault |-> FALSE, hit |-> FALSE,
     at |-> 0, seen |-> NoSeen, prev |-> prev, snap |-> snap,
     alone |-> alone, cached |-> cached, during |-> FALSE,
     fetchedAt |-> 0, writeFault |-> FALSE]

NewFrame(op, pc, title, id, arg) ==
    Frame(op, pc, title, id, arg, last, <<cache, redis>>,
          \A q \in Procs : fr[q].pc = "idle",
          IF variant = "tmdb"
              THEN title \in Titles /\ Fresh(cache[title], now)
              ELSE id \in Ids /\ Live(redis[CacheKey(id)], now))

\* the frame of a goroutine that is in no call
IdleFrame ==
    Frame("none", "idle", "", 0, NilMovie, NoCall,
          <<[t \in Titles |-> NoEntry], [k \in RedisKeys |-> NoValue]>>, TRUE, FALSE)

InFlight == {p \in Procs : fr[p].pc # "idle"}

\* goroutine p enters a call, alone or beside the calls in flight
Enter(p) ==
    /\ ncalls < MaxCalls
    /\ ncalls' = ncalls + 1
    /\ InFlight # {} => novl < MaxOverlap
    /\ novl' = IF InFlight # {} THEN novl + 1 ELSE novl

\* the frames once p has entered a call with frame f: the calls in flight have
\* company from now on
Entered(p, f) ==
    [q \in Procs |-> IF q = p THEN f
                     ELSE IF fr[q].pc = "idle" THEN fr[q]
                     ELSE [fr[q] EXCEPT !.alone = FALSE]]

\* the call returns to its caller
Return(p) ==
    /\ fr[p].pc = "done"
    /\ last' = Summary(fr[p])
    /\ fr' = [fr EXCEPT ![p] = IdleFrame]
    /\ UNCHANGED <<http, readAt, variant, now, cache, mu, redis, db, nextId, origin, invalFault, ncalls, novl>>

\* ------------------------------------------------------------------ CacheAdapter
\* NewCacheAdapter: make(map[string]cacheEntry)
NewCacheAdapter == [t \in Titles |-> NoEntry]

\* a.next.SearchMovie(title): (*Movie, nil), ErrNotFound or a wrapped ErrProviderFailure
ProviderOutcomes(title) ==
    {Ret(m, Nil) : m \in CatalogAnswers(title)}
        \cup {Ret(NilMovie, ErrNotFound), Ret(NilMovie, ErrProviderFailure)}

Call_SearchMovie(p, title) ==
    /\ variant = "tmdb"
    /\ fr[p].pc = "idle"
    /\ Enter(p)
    /\ fr' = Entered(p, NewFrame("SearchMovie", "lock1", title, 0, NilMovie))
    /\ UNCHANGED <<http, readAt, variant, now, cache, mu, redis, db, nextId, origin, last, invalFault>>

\* variant: the first critical section is entered without waiting for the mutex
SearchMovie_Lock1_NoWait(p) ==
    /\ fr[p].op = "SearchMovie" /\ fr[p].pc = "lock1"
    /\ mu' = p
    /\ fr' = [fr EXCEPT ![p].pc = "read",
                        ![p].during = \E q \in Procs \ {p} : fr[q].pc = "next"]
    /\ UNCHANGED <<http, readAt, variant, now, cache, redis, db, nextId, origin, last, invalFault, ncalls, novl>>

\* a.mu.Lock() before the map read
SearchMovie_Lock1(p) ==
    /\ fr[p].op = "SearchMovie" /\ fr[p].pc = "lock1"
    /\ mu = ""
    /\ mu' = p
    /\ fr' = [fr EXCEPT ![p].pc = "read",
                        ![p].during = \E q \in Procs \ {p} : fr[q].pc = "next"]
    /\ UNCHANGED <<http, readAt, variant, now, cache, redis, db, nextId, origin, last, invalFault, ncalls, novl>>

\* variant: the mutex is kept after the map read (Unlock deferred to the return)
SearchMovie_Read_DeferUnlock(p) ==
    /\ fr[p].op = "SearchMovie" /\ fr[p].pc = "read"
    /\ mu = p
    /\ fr' = [fr EXCEPT ![p].pc = "check", ![p].entry = cache[fr[p].title],
                        ![p].seen = LET e == cache[fr[p].title]
                                    IN  Seen(e.found, e.createdAt, e.movie)]
    /\ UNCHANGED <<http, readAt, variant, now, cache, mu, redis, db, nextId, origin, last, invalFault, ncalls, novl>>

\* entry, found := a.cache[title]; a.mu.Unlock()
SearchMovie_Read(p) ==
    /\ fr[p].op = "SearchMovie" /\ fr[p].pc = "read"
    /\ mu = p
    /\ mu' = ""
    /\ fr' = [fr EXCEPT ![p].pc = "check", ![p].entry = cache[fr[p].title],
                        ![p].seen = LET e == cache[fr[p].title]
                                    IN  Seen(e.found, e.createdAt, e.movie)]
    /\ UNCHANGED <<http, readAt, variant, now, cache, redis, db, nextId, origin, last, invalFault, ncalls, novl>>

\* if found && time.Since(entry.createdAt) < a.ttl { return entry.movie, nil }
SearchMovie_Check(p) ==
    /\ fr[p].op = "SearchMovie" /\ fr[p].pc = "check"
    /\ fr' = IF Fresh(fr[p].entry, now)
                THEN [fr EXCEPT ![p].pc = "done", ![p].hit = TRUE, ![p].at = now,
                                ![p].ret = Ret(fr[p].entry.movie, Nil)]
                ELSE [fr EXCEPT ![p].pc = "next", ![p].at = now, ![p].during = FALSE]
    /\ UNCHANGED <<http, readAt, variant, now, cache, mu, redis, db, nextId, origin, last, invalFault, ncalls, novl>>

\* variant: a failed upstream fetch is remembered in the map (negative caching)
SearchMovie_Next_CachesError(p) ==
    /\ fr[p].op = "SearchMovie" /\ fr[p].pc = "next"
    /\ \E out \in ProviderOutcomes(fr[p].title) :
          /\ cache' = IF out.err # Nil
                         THEN [cache EXCEPT ![fr[p].title] = Entry(NilMovie, now)]
                         ELSE cache
          /\ fr' = IF out.err # Nil
                      THEN [fr EXCEPT ![p].pc = "done", ![p].calls = @ + 1,
                                      ![p].nextRet = out, ![p].ret = Ret(NilMovie, out.err)]
                      ELSE [fr EXCEPT ![p].pc = "lock2", ![p].calls = @ + 1,
                                      ![p].nextRet = out, ![p].movie = out.movie,
                                      ![p].fetchedAt = now]
    /\ UNCHANGED <<http, readAt, variant, now, mu, redis, db, nextId, origin, last, invalFault, ncalls, novl>>

\* movie, err := a.next.SearchMovie(title); if err != nil { return nil, err }
SearchMovie_Next(p) ==
    /\ fr[p].op = "SearchMovie" /\ fr[p].pc = "next"
    /\ \E out \in ProviderOutcomes(fr[p].title) :
          fr' = IF out.err # Nil
                   THEN [fr EXCEPT ![p].pc = "done", ![p].calls = @ + 1,
                                   ![p].nextRet = out, ![p].ret = Ret(NilMovie, out.err)]
                   ELSE [fr EXCEPT ![p].pc = "lock2", ![p].calls = @ + 1,
                                   ![p].nextRet = out, ![p].movie = out.movie,
                                   ![p].fetchedAt = now]
    /\ UNCHANGED <<http, readAt, variant, now, cache, mu, redis, db, nextId, origin, last, invalFault, ncalls, novl>>

\* a.mu.Lock() before the map write
SearchMovie_Lock2(p) ==
    /\ fr[p].op = "SearchMovie" /\ fr[p].pc = "lock2"
    /\ mu = ""
    /\ mu' = p
    /\ fr' = [fr EXCEPT ![p].pc = "write"]
    /\ UNCHANGED <<http, readAt, variant, now, cache, redis, db, nextId, origin, last, invalFault, ncalls, novl>>

\* variant: the call returns after the map write without releasing the mutex
SearchMovie_Write_NoUnlock(p) ==
    /\ fr[p].op = "SearchMovie" /\ fr[p].pc = "write"
    /\ mu = p
    /\ cache' = [cache EXCEPT ![fr[p].title] = Entry(fr[p].movie, now)]
    /\ readAt' = [readAt EXCEPT ![fr[p].title] = fr[p].fetchedAt]
    /\ fr' = [fr EXCEPT ![p].pc = "done", ![p].ret = Ret(fr[p].movie, Nil)]
    /\ UNCHANGED <<http, variant, now, mu, redis, db, nextId, origin, last, invalFault, ncalls, novl>>

\* a.cache[title] = cacheEntry{movie, time.Now()}; a.mu.Unlock(); return movie, nil
SearchMovie_Write(p) ==
    /\ fr[p].op = "SearchMovie" /\ fr[p].pc = "write"
    /\ mu = p
    /\ cache' = [cache EXCEPT ![fr[p].title] = Entry(fr[p].movie, now)]
    /\ readAt' = [readAt EXCEPT ![fr[p].title] = fr[p].fetchedAt]
    /\ mu' = ""
    /\ fr' = [fr EXCEPT ![p].pc = "done", ![p].ret = Ret(fr[p].movie, Nil)]
    /\ UNCHANGED <<http, variant, now, redis, db, nextId, origin, last, invalFault, ncalls, novl>>

\* ------------------------------------------------------------------ PostgresAdapter
\* the *Movie PostgresAdapter.GetMovieByID scans out of the row with this id
PgMovie(id, row) == Movie(id, row.Title, row.Rating, row.ReleaseDate)

\* the column values INSERT and UPDATE write for a *Movie: movie.ID is not written,
\* movie.ReleaseDate.Time goes into the date column
RowOf(m) == Row(m.Title, m.Rating, [day |-> m.ReleaseDate.day, tod |-> 0])

\* the movies a caller may hand to CreateMovie and UpdateMovie
MovieArgs == {Movie(0, r.Title, r.Rating, r.ReleaseDate) : r \in Rows \ {InitRow}}

\* errors of a.pool.QueryRow/Exec/Query other than "no rows"
PgFaults == {ErrDB, ErrCanceled}

\* PostgresAdapter.GetMovieByID
PgGetMovieByID(id) ==
    {IF db[id].found THEN Ret(PgMovie(id, db[id].row), Nil) ELSE Ret(NilMovie, ErrNotFound)}
        \cup {Ret(NilMovie, e) : e \in PgFaults}

\* PostgresAdapter.GetAllMovies
PgGetAllMovies ==
    {RetList({PgMovie(i, db[i].row) : i \in {j \in Ids : db[j].found}}, Nil)}
        \cup {RetList({}, e) : e \in PgFaults}

\* ------------------------------------------------------------------ RedisCacheAdapter
Call_GetMovieByID(p, id) ==
    /\ variant = "postgres"
    /\ fr[p].pc = "idle"
    /\ Enter(p)
    /\ fr' = Entered(p, NewFrame("GetMovieByID", "get", "", id, NilMovie))
    /\ UNCHANGED <<http, readAt, variant, now, cache, mu, redis, db, nextId, origin, last, invalFault>>

\* variant: a failed cache read (GET error or undecodable value) is returned as the
\* call's error
GetMovieByID_Get_ReadFaultFatal(p) ==
    /\ fr[p].op = "GetMovieByID" /\ fr[p].pc = "get"
    /\ \E fault \in BOOLEAN :
          LET v == redis[CacheKey(fr[p].id)]
              dec == jsonUnmarshal(v.data)
              sn == Seen(v.found, v.setAt, origin[CacheKey(fr[p].id)])
              bad == fault \/ (Live(v, now) /\ ~dec.ok)
          IN  fr' = IF bad
                       THEN [fr EXCEPT ![p].pc = "done", ![p].cacheOps = @ + 1,
                                       ![p].at = now, ![p].seen = sn,
                                       ![p].fault = fault, ![p].readFault = TRUE,
                                       ![p].ret = Ret(NilMovie, ErrDB)]
                       ELSE IF Live(v, now)
                       THEN [fr EXCEPT ![p].pc = "done", ![p].cacheOps = @ + 1,
                                       ![p].hit = TRUE, ![p].at = now, ![p].seen = sn,
                                       ![p].ret = Ret(dec.movie, Nil)]
                       ELSE [fr EXCEPT ![p].pc = "next", ![p].cacheOps = @ + 1,
                                       ![p].at = now, ![p].seen = sn]
    /\ UNCHANGED <<http, readAt, variant, now, cache, mu, redis, db, nextId, origin, last, invalFault, ncalls, novl>>

\* cachedData, err := a.client.Get(ctx, key).Result(); on err == nil, json.Unmarshal
\* and return &movie; redis.Nil, any other error or a decode error fall through
GetMovieByID_Get(p) ==
    /\ fr[p].op = "GetMovieByID" /\ fr[p].pc = "get"
    /\ \E fault \in BOOLEAN :
          LET v == redis[CacheKey(fr[p].id)]
              dec == jsonUnmarshal(v.data)
              sn == Seen(v.found, v.setAt, origin[CacheKey(fr[p].id)])
          IN  fr' = IF ~fault /\ Live(v, now) /\ dec.ok
                       THEN [fr EXCEPT ![p].pc = "done", ![p].cacheOps = @ + 1,
                                       ![p].hit = TRUE, ![p].at = now, ![p].seen = sn,
                                       ![p].ret = Ret(dec.movie, Nil)]
                       ELSE [fr EXCEPT ![p].pc = "next", ![p].cacheOps = @ + 1,
                                       ![p].at = now, ![p].seen = sn,
                                       ![p].fault = fault,
                                       ![p].readFault = fault \/ (Live(v, now) /\ ~dec.ok)]
    /\ UNCHANGED <<http, readAt, variant, now, cache, mu, redis, db, nextId, origin, last, invalFault, ncalls, novl>>

\* movie, err := a.next.GetMovieByID(ctx, id); if err != nil { return nil, err }
GetMovieByID_Next(p) ==
    /\ fr[p].op = "GetMovieByID" /\ fr[p].pc = "next"
    /\ \E out \in PgGetMovieByID(fr[p].id) :
          fr' = IF out.err # Nil
                   THEN [fr EXCEPT ![p].pc = "done", ![p].calls = @ + 1,
                                   ![p].nextRet = out, ![p].ret = Ret(NilMovie, out.err)]
                   ELSE [fr EXCEPT ![p].pc = "set", ![p].calls = @ + 1,
                                   ![p].nextRet = out, ![p].movie = out.movie,
                                   ![p].fetchedAt = now]
    /\ UNCHANGED <<http, readAt, variant, now, cache, mu, redis, db, nextId, origin, last, invalFault, ncalls, novl>>

\* variant: a failure to encode or to store the entity is returned as the call's error
GetMovieByID_Set_Fatal(p) ==
    /\ fr[p].op = "GetMovieByID" /\ fr[p].pc = "set"
    /\ LET enc == jsonMarshal(fr[p].movie)
           key == CacheKey(fr[p].id)
       IN  IF ~enc.ok
              THEN /\ fr' = [fr EXCEPT ![p].pc = "done", ![p].writeFault = TRUE,
                                       ![p].ret = Ret(NilMovie, ErrDB)]
                   /\ UNCHANGED <<redis, origin, readAt>>
              ELSE \E fault \in BOOLEAN :
                      /\ redis' = IF fault THEN redis
                                  ELSE [redis EXCEPT ![key] = Value(enc.data, now, TTL)]
                      /\ origin' = IF fault THEN origin
                                   ELSE [origin EXCEPT ![key] = fr[p].movie]
                      /\ readAt' = IF fault THEN readAt
                                   ELSE [readAt EXCEPT ![key] = fr[p].fetchedAt]
                      /\ fr' = [fr EXCEPT ![p].pc = "done", ![p].cacheOps = @ + 1,
                                          ![p].fault = @ \/ fault,
                                          ![p].writeFault = fault,
                                          ![p].ret = IF fault THEN Ret(NilMovie, ErrDB)
                                                     ELSE Ret(fr[p].movie, Nil)]
    /\ UNCHANGED <<http, variant, now, cache, mu, db, nextId, last, invalFault, ncalls, novl>>

\* jsonData, err := json.Marshal(movie): on error return movie, nil uncached;
\* a.client.Set(ctx, key, jsonData, a.ttl): an error is only logged; return movie, nil
GetMovieByID_Set(p) ==
    /\ fr[p].op = "GetMovieByID" /\ fr[p].pc = "set"
    /\ LET enc == jsonMarshal(fr[p].movie)
           key == CacheKey(fr[p].id)
       IN  IF ~enc.ok
              THEN /\ fr' = [fr EXCEPT ![p].pc = "done", ![p].writeFault = TRUE,
                                       ![p].ret = Ret(fr[p].movie, Nil)]
                   /\ UNCHANGED <<redis, origin, readAt>>
              ELSE \E fault \in BOOLEAN :
                      /\ redis' = IF fault THEN redis
                                  ELSE [redis EXCEPT ![key] = Value(enc.data, now, TTL)]
                      /\ origin' = IF fault THEN origin
                                   ELSE [origin EXCEPT ![key] = fr[p].movie]
                      /\ readAt' = IF fault THEN readAt
                                   ELSE [readAt EXCEPT ![key] = fr[p].fetchedAt]
                      /\ fr' = [fr EXCEPT ![p].pc = "done", ![p].cacheOps = @ + 1,
                                          ![p].fault = @ \/ fault,
                                          ![p].writeFault = fault,
                                          ![p].ret = Ret(fr[p].movie, Nil)]
    /\ UNCHANGED <<http, variant, now, cache, mu, db, nextId, last, invalFault, ncalls, novl>>

Call_UpdateMovie(p, id, movie) ==
    /\ variant = "postgres"
    /\ fr[p].pc = "idle"
    /\ Enter(p)
    /\ fr' = Entered(p, NewFrame("UpdateMovie", "next", "", id, movie))
    /\ UNCHANGED <<http, readAt, variant, now, cache, mu, redis, db, nextId, origin, last, invalFault>>

\* variant: the key is deleted even when the wrapped update has failed
UpdateMovie_Next_InvalidateOnError(p) ==
    /\ fr[p].op = "UpdateMovie" /\ fr[p].pc = "next"
    /\ \E e \in {Nil} \cup PgFaults :
          /\ db' = IF e = Nil /\ db[fr[p].id].found
                      THEN [db EXCEPT ![fr[p].id].row = RowOf(fr[p].arg)]
                      ELSE db
          /\ redis' = IF e # Nil THEN [redis EXCEPT ![CacheKey(fr[p].id)] = NoValue] ELSE redis
          /\ origin' = IF e # Nil THEN [origin EXCEPT ![CacheKey(fr[p].id)] = NilMovie] ELSE origin
          /\ fr' = IF e # Nil
                      THEN [fr EXCEPT ![p].pc = "done", ![p].calls = @ + 1, ![p].cacheOps = @ + 1,
                                      ![p].nextRet = Ret(NilMovie, e), ![p].ret = Ret(NilMovie, e)]
                      ELSE [fr EXCEPT ![p].pc = "del", ![p].calls = @ + 1,
                                      ![p].nextRet = Ret(NilMovie, e)]
    /\ UNCHANGED <<http, readAt, variant, now, cache, mu, nextId, last, invalFault, ncalls, novl>>

\* err := a.next.UpdateMovie(ctx, id, movie); if err != nil { return err }
\* (PostgresAdapter.UpdateMovie: an UPDATE that matches no row is no error)
UpdateMovie_Next(p) ==
    /\ fr[p].op = "UpdateMovie" /\ fr[p].pc = "next"
    /\ \E e \in {Nil} \cup PgFaults :
          /\ db' = IF e = Nil /\ db[fr[p].id].found
                      THEN [db EXCEPT ![fr[p].id].row = RowOf(fr[p].arg)]
                      ELSE db
          /\ fr' = IF e # Nil
                      THEN [fr EXCEPT ![p].pc = "done", ![p].calls = @ + 1,
                                      ![p].nextRet = Ret(NilMovie, e), ![p].ret = Ret(NilMovie, e)]
                      ELSE [fr EXCEPT ![p].pc = "del", ![p].calls = @ + 1,
                                      ![p].nextRet = Ret(NilMovie, e)]
    /\ UNCHANGED <<http, readAt, variant, now, cache, mu, redis, nextId, origin, last, invalFault, ncalls, novl>>

\* variant: a faulted DEL is handed to the caller as the call's error
InvalidateCache_Fatal(p) ==
    /\ fr[p].pc = "del"
    /\ \E fault \in BOOLEAN :
          /\ redis' = IF fault THEN redis
                      ELSE [redis EXCEPT ![CacheKey(fr[p].id)] = NoValue]
          /\ origin' = IF fault THEN origin
                       ELSE [origin EXCEPT ![CacheKey(fr[p].id)] = NilMovie]
          /\ invalFault' = (invalFault \/ fault)
          /\ fr' = [fr EXCEPT ![p].pc = "done", ![p].cacheOps = @ + 1,
                              ![p].fault = fault,
                              ![p].ret = Ret(NilMovie, IF fault THEN ErrDB ELSE Nil)]
    /\ UNCHANGED <<http, readAt, variant, now, cache, mu, db, nextId, last, ncalls, novl>>

\* variant: the invalidation empties the whole keyspace (FLUSHDB instead of DEL key)
InvalidateCache_FlushAll(p) ==
    /\ fr[p].pc = "del"
    /\ \E fault \in BOOLEAN :
          /\ redis' = IF fault THEN redis ELSE [k \in RedisKeys |-> NoValue]
          /\ origin' = IF fault THEN origin ELSE [k \in RedisKeys |-> NilMovie]
          /\ invalFault' = (invalFault \/ fault)
          /\ fr' = [fr EXCEPT ![p].pc = "done", ![p].cacheOps = @ + 1,
                              ![p].fault = fault, ![p].ret = Ret(NilMovie, Nil)]
    /\ UNCHANGED <<http, readAt, variant, now, cache, mu, db, nextId, last, ncalls, novl>>

\* a.client.Del(ctx, key): an error is only logged; return nil
InvalidateCache(p) ==
    /\ fr[p].pc = "del"
    /\ \E fault \in BOOLEAN :
          /\ redis' = IF fault THEN redis
                      ELSE [redis EXCEPT ![CacheKey(fr[p].id)] = NoValue]
          /\ origin' = IF fault THEN origin
                       ELSE [origin EXCEPT ![CacheKey(fr[p].id)] = NilMovie]
          /\ invalFault' = (invalFault \/ fault)
          /\ fr' = [fr EXCEPT ![p].pc = "done", ![p].cacheOps = @ + 1,
                              ![p].fault = fault, ![p].ret = Ret(NilMovie, Nil)]
    /\ UNCHANGED <<http, readAt, variant, now, cache, mu, db, nextId, last, ncalls, novl>>

\* variant: a successful update returns without sending DEL
UpdateMovie_Del_NoInvalidate(p) ==
    /\ fr[p].op = "UpdateMovie" /\ fr[p].pc = "del"
    /\ fr' = [fr EXCEPT ![p].pc = "done", ![p].ret = Ret(NilMovie, Nil)]
    /\ UNCHANGED <<http, readAt, variant, now, cache, mu, redis, db, nextId, origin, last, invalFault, ncalls, novl>>

UpdateMovie_Del(p) ==
    /\ fr[p].op = "UpdateMovie"
    /\ InvalidateCache(p)

Call_DeleteMovie(p, id) ==
    /\ variant = "postgres"
    /\ fr[p].pc = "idle"
    /\ Enter(p)
    /\ fr' = Entered(p, NewFrame("DeleteMovie", "next", "", id, NilMovie))
    /\ UNCHANGED <<http, readAt, variant, now, cache, mu, redis, db, nextId, origin, last, invalFault>>

\* err := a.next.DeleteMovie(ctx, id); if err != nil { return err }
\* (PostgresAdapter.DeleteMovie: a DELETE that matches no row is no error)
DeleteMovie_Next(p) ==
    /\ fr[p].op = "DeleteMovie" /\ fr[p].pc = "next"
    /\ \E e \in {Nil} \cup PgFaults :
          /\ db' = IF e = Nil THEN [db EXCEPT ![fr[p].id] = NoRow] ELSE db
          /\ fr' = IF e # Nil
                      THEN [fr EXCEPT ![p].pc = "done", ![p].calls = @ + 1,
                                      ![p].nextRet = Ret(NilMovie, e), ![p].ret = Ret(NilMovie, e)]
                      ELSE [fr EXCEPT ![p].pc = "del", ![p].calls = @ + 1,
                                      ![p].nextRet = Ret(NilMovie, e)]
    /\ UNCHANGED <<http, readAt, variant, now, cache, mu, redis, nextId, origin, last, invalFault, ncalls, novl>>

\* variant: a successful delete returns without sending DEL
DeleteMovie_Del_NoInvalidate(p) ==
    /\ fr[p].op = "DeleteMovie" /\ fr[p].pc = "del"
    /\ fr' = [fr EXCEPT ![p].pc = "done", ![p].ret = Ret(NilMovie, Nil)]
    /\ UNCHANGED <<http, readAt, variant, now, cache, mu, redis, db, nextId, origin, last, invalFault, ncalls, novl>>

DeleteMovie_Del(p) ==
    /\ fr[p].op = "DeleteMovie"
    /\ InvalidateCache(p)

Call_CreateMovie(p, movie) ==
    /\ variant = "postgres"
    /\ fr[p].pc = "idle"
    /\ Enter(p)
    /\ fr' = Entered(p, NewFrame("CreateMovie", "next", "", 0, movie))
    /\ UNCHANGED <<http, readAt, variant, now, cache, mu, redis, db, nextId, origin, last, invalFault>>

\* PostgresAdapter.CreateMovie: INSERT ... RETURNING id, or (0, err)
PgCreateMovie(movie) ==
    (IF nextId \in Ids THEN {RetId(nextId, Nil)} ELSE {}) \cup {RetId(0, e) : e \in PgFaults}

\* variant: the created movie is put into the keyspace under its new id
CreateMovie_Next_Populate(p) ==
    /\ fr[p].op = "CreateMovie" /\ fr[p].pc = "next"
    /\ \E out \in PgCreateMovie(fr[p].arg) :
          /\ db' = IF out.err = Nil
                      THEN [db EXCEPT ![out.id] = [found |-> TRUE, row |-> RowOf(fr[p].arg)]]
                      ELSE db
          /\ nextId' = IF out.err = Nil THEN nextId + 1 ELSE nextId
          /\ redis' = IF out.err = Nil
                         THEN [redis EXCEPT ![CacheKey(out.id)] =
                                   Value(jsonMarshal(PgMovie(out.id, RowOf(fr[p].arg))).data, now, TTL)]
                         ELSE redis
          /\ fr' = [fr EXCEPT ![p].pc = "done", ![p].calls = @ + 1,
                              ![p].nextRet = out, ![p].ret = out]
    /\ UNCHANGED <<http, readAt, variant, now, cache, mu, origin, last, invalFault, ncalls, novl>>

\* return a.next.CreateMovie(ctx, movie)
CreateMovie_Next(p) ==
    /\ fr[p].op = "CreateMovie" /\ fr[p].pc = "next"
    /\ \E out \in PgCreateMovie(fr[p].arg) :
          /\ db' = IF out.err = Nil
                      THEN [db EXCEPT ![out.id] = [found |-> TRUE, row |-> RowOf(fr[p].arg)]]
                      ELSE db
          /\ nextId' = IF out.err = Nil THEN nextId + 1 ELSE nextId
          /\ fr' = [fr EXCEPT ![p].pc = "done", ![p].calls = @ + 1,
                              ![p].nextRet = out, ![p].ret = out]
    /\ UNCHANGED <<http, readAt, variant, now, cache, mu, redis, origin, last, invalFault, ncalls, novl>>

Call_GetAllMovies(p) ==
    /\ variant = "postgres"
    /\ fr[p].pc = "idle"
    /\ Enter(p)
    /\ fr' = Entered(p, NewFrame("GetAllMovies", "next", "", 0, NilMovie))
    /\ UNCHANGED <<http, readAt, variant, now, cache, mu, redis, db, nextId, origin, last, invalFault>>

\* return a.next.GetAllMovies(ctx)
GetAllMovies_Next(p) ==
    /\ fr[p].op = "GetAllMovies" /\ fr[p].pc = "next"
    /\ \E out \in PgGetAllMovies :
          fr' = [fr EXCEPT ![p].pc = "done", ![p].calls = @ + 1,
                           ![p].nextRet = out, ![p].ret = out]
    /\ UNCHANGED <<http, readAt, variant, now, cache, mu, redis, db, nextId, origin, last, invalFault, ncalls, novl>>

\* ------------------------------------------------------------------ clock
Tick ==
    /\ now < MaxTime
    /\ now' = now + 1
    /\ UNCHANGED <<http, readAt, variant, cache, mu, redis, db, nextId, fr, origin, last, invalFault, ncalls, novl>>

\* ------------------------------------------------------------------ MovieService
\* the thresholds of the advice, in tenths of a rating point
FavorableMin == 75
NeutralMin == 50

AdviceFavorable == "It is a very good choice! A high rated movie, which is recommended to watch."
AdviceNeutral == "A good option for a night, but do not expect something perfect."
AdviceUnfavorable == "A controversial choice. Not really recommended to watch, but you still can do so."

\* variant: the thresholds themselves fall in the lower band
Advice_StrictBoundary(rating) ==
    IF ~rating.nan /\ rating.x10 > FavorableMin THEN AdviceFavorable
    ELSE IF ~rating.nan /\ rating.x10 > NeutralMin THEN AdviceNeutral
    ELSE AdviceUnfavorable

\* if movie.Rating >= 7.5 {...} else if movie.Rating >= 5.0 {...} else {...}
\* (every comparison with NaN is false)
Advice(rating) ==
    IF ~rating.nan /\ rating.x10 >= FavorableMin THEN AdviceFavorable
    ELSE IF ~rating.nan /\ rating.x10 >= NeutralMin THEN AdviceNeutral
    ELSE AdviceUnfavorable

\* *FinalMovieData: the movie with its advice, or nil
NoData == [nil |-> TRUE, Movie |-> NilMovie, Advice |-> ""]
FinalMovieData(m, advice) == [nil |-> FALSE, Movie |-> m, Advice |-> advice]

\* variant: the service hides the kind of failure behind one error
GetMovie_Reclassifies(out) ==
    IF out.err # Nil
       THEN [data |-> NoData, err |-> ErrProviderFailure]
       ELSE [data |-> FinalMovieData(out.movie, Advice(out.movie.Rating)), err |-> Nil]

\* MovieService.GetMovie, given what s.provider.SearchMovie(title) returned
GetMovie(out) ==
    IF out.err # Nil
       THEN [data |-> NoData, err |-> out.err]
       ELSE [data |-> FinalMovieData(out.movie, Advice(out.movie.Rating)), err |-> Nil]

\* ------------------------------------------------------------------ transport
\* an error that wraps ErrProviderFailure: fmt.Errorf("%w: %v", errs.ErrProviderFailure, err)
ErrWrapped == "the external provider failed to respond: timeout"
Unwrap(e) == IF e = ErrWrapped THEN ErrProviderFailure ELSE Nil

\* errors.Is(err, target)
ErrorsIs(err, target) == err = target \/ (Unwrap(err) # Nil /\ Unwrap(err) = target)

StatusOK == 200
StatusCreated == 201
StatusNoContent == 204
StatusBadRequest == 400
StatusUnauthorized == 401
StatusNotFound == 404
StatusMethodNotAllowed == 405
StatusInternalServerError == 500
StatusServiceUnavailable == 503

\* what a handler writes: the status, the movie handler that ran ("" when none
\* did), the advice in the body ("" when the body carries none)
Response(status, handler, advice) == [status |-> status, handler |-> handler, advice |-> advice]

\* a JWT as ValidateToken looks at it: the signing method in its header, whether
\* the signature verifies under the secret, whether exp has passed, the type of sub
Token(alg, signed, expired, sub) == [alg |-> alg, signed |-> signed, expired |-> expired, sub |-> sub]
GoodToken == Token("HS256", TRUE, FALSE, "number")
Tokens ==
    {GoodToken, Token("HS256", FALSE, FALSE, "number"), Token("none", TRUE, FALSE, "number"),
     Token("HS256", TRUE, TRUE, "number"), Token("HS256", TRUE, FALSE, "string")}

\* AuthSvc.ValidateToken: jwt.Parse rejects a signing method that is not HMAC, a
\* signature that does not verify and an expired token; sub must be a number
ValidateToken(t) == t.alg = "HS256" /\ t.signed /\ ~t.expired /\ t.sub = "number"

\* the Authorization header as strings.Split(authHeader, " ") sees it: the number
\* of parts (0 for an empty or missing header), the first part, the second part
Header(n, scheme, token) == [n |-> n, scheme |-> scheme, token |-> token]
NoHeader == Header(0, "", GoodToken)
Headers ==
    {NoHeader, Header(1, "Bearer", GoodToken), Header(3, "Bearer", GoodToken),
     Header(2, "Basic", GoodToken), Header(2, "bearer", GoodToken)}
        \cup {Header(2, "Bearer", t) : t \in Tokens}

\* variant: the token is taken from the header and never validated
AuthMiddleware_SkipsValidation(h) ==
    h.n # 0 /\ h.n = 2 /\ h.scheme = "Bearer"

\* AuthMiddleware: does the request go on to next.ServeHTTP (otherwise 401)
AuthMiddleware(h) ==
    /\ h.n # 0
    /\ h.n = 2 /\ h.scheme = "Bearer"
    /\ ValidateToken(h.token)

\* the requests: method, path pattern, the {id} or {title} segment, the header,
\* whether the body decodes, and what the service answers when it is called
Methods == {"GET", "POST", "PUT", "DELETE"}
Paths == {"/movies", "/movies/{id}", "/movie/{title}"}
Segments == {"1", "abc"}
RatingSamples == {0, 49, 50, 51, 74, 75, 76, 100}
ServiceErrors == {ErrNotFound, ErrProviderFailure, ErrWrapped, ErrDB, ErrCanceled}
ServiceOutcomes ==
    {Ret(Movie(1, "A", Rating(r), Date(1)), Nil) : r \in RatingSamples}
        \cup {Ret(NilMovie, e) : e \in ServiceErrors}
Request(method, path, seg, header, bodyOk, out) ==
    [method |-> method, path |-> path, seg |-> seg, header |-> header, bodyOk |-> bodyOk, out |-> out]

\* strconv.Atoi(idStr)
Atoi(str) ==
    IF \E i \in Ids : ToString(i) = str
       THEN [ok |-> TRUE, n |-> CHOOSE i \in Ids : ToString(i) = str]
       ELSE [ok |-> FALSE, n |-> 0]

\* variant: the by-title handler tests for NotFound only
HandlerGetMovie_No503(q) ==
    LET res == GetMovie(q.out)
    IN  IF res.err # Nil
           THEN IF ErrorsIs(res.err, ErrNotFound)
                   THEN Response(StatusNotFound, "GetMovie", "")
                ELSE Response(StatusInternalServerError, "GetMovie", "")
           ELSE Response(StatusOK, "GetMovie", res.data.Advice)

\* MovieHandler.GetMovie (by title)
HandlerGetMovie(q) ==
    LET res == GetMovie(q.out)
    IN  IF res.err # Nil
           THEN IF ErrorsIs(res.err, ErrNotFound)
                   THEN Response(StatusNotFound, "GetMovie", "")
                ELSE IF ErrorsIs(res.err, ErrProviderFailure)
                   THEN Response(StatusServiceUnavailable, "GetMovie", "")
                ELSE Response(StatusInternalServerError, "GetMovie", "")
           ELSE Response(StatusOK, "GetMovie", res.data.Advice)

\* MovieService.GetMovieByID, given what the repository's GetMovieByID returned
ServiceGetMovieByID(out) == GetMovie(out)

\* MovieHandler.GetMovieByID
HandlerGetMovieByID(q) ==
    LET res == ServiceGetMovieByID(q.out)
    IN  IF ~Atoi(q.seg).ok THEN Response(StatusBadRequest, "GetMovieByID", "")
        ELSE IF res.err # Nil
           THEN IF ErrorsIs(res.err, ErrNotFound)
                   THEN Response(StatusNotFound, "GetMovieByID", "")
                ELSE Response(StatusInternalServerError, "GetMovieByID", "")
           ELSE Response(StatusOK, "GetMovieByID", res.data.Advice)

\* MovieHandler.GetAllMovies
HandlerGetAllMovies(q) ==
    IF q.out.err # Nil THEN Response(StatusInternalServerError, "GetAllMovies", "")
    ELSE Response(StatusOK, "GetAllMovies", "")

\* MovieHandler.CreateMovie
HandlerCreateMovie(q) ==
    IF ~q.bodyOk THEN Response(StatusBadRequest, "CreateMovie", "")
    ELSE IF q.out.err # Nil THEN Response(StatusInternalServerError, "CreateMovie", "")
    ELSE Response(StatusCreated, "CreateMovie", "")

\* MovieHandler.UpdateMovie
HandlerUpdateMovie(q) ==
    IF ~Atoi(q.seg).ok \/ ~q.bodyOk THEN Response(StatusBadRequest, "UpdateMovie", "")
    ELSE IF q.out.err # Nil THEN Response(StatusInternalServerError, "UpdateMovie", "")
    ELSE Response(StatusNoContent, "UpdateMovie", "")

\* MovieHandler.DeleteMovie
HandlerDeleteMovie(q) ==
    IF ~Atoi(q.seg).ok THEN Response(StatusBadRequest, "DeleteMovie", "")
    ELSE IF q.out.err # Nil THEN Response(StatusInternalServerError, "DeleteMovie", "")
    ELSE Response(StatusNoContent, "DeleteMovie", "")

\* the routes behind AuthMiddleware (r.Group with r.Use)
Protected(q) ==
    \/ q.method = "POST" /\ q.path = "/movies"
    \/ q.method \in {"PUT", "DELETE"} /\ q.path = "/movies/{id}"

\* the routes of a deployment: the by-title service answers GET /movie/{title},
\* the repository-backed service answers the /movies routes
Routed(q) ==
    IF variant = "tmdb"
       THEN q.path = "/movie/{title}"
       ELSE q.path \in {"/movies", "/movies/{id}"}

\* the router: the handler a request is dispatched to
Dispatch(q) ==
    IF ~Routed(q) THEN Response(StatusNotFound, "", "")
    ELSE IF q.method = "GET" /\ q.path = "/movie/{title}" THEN HandlerGetMovie(q)
    ELSE IF q.method = "GET" /\ q.path = "/movies" THEN HandlerGetAllMovies(q)
    ELSE IF q.method = "GET" /\ q.path = "/movies/{id}" THEN HandlerGetMovieByID(q)
    ELSE IF q.method = "POST" /\ q.path = "/movies" THEN HandlerCreateMovie(q)
    ELSE IF q.method = "PUT" /\ q.path = "/movies/{id}" THEN HandlerUpdateMovie(q)
    ELSE IF q.method = "DELETE" /\ q.path = "/movies/{id}" THEN HandlerDeleteMovie(q)
    ELSE Response(StatusMethodNotAllowed, "", "")

\* the response to a request
Respond(q) ==
    IF Routed(q) /\ Protected(q) /\ ~AuthMiddleware(q.header)
       THEN Response(StatusUnauthorized, "", "")
       ELSE Dispatch(q)

Requests ==
    {Request(method, path, seg, h, bodyOk, out) :
        method \in Methods, path \in Paths, seg \in Segments, h \in Headers,
        bodyOk \in BOOLEAN, out \in ServiceOutcomes}

\* no request has arrived; a request that has arrived and is not answered yet
NoResponse == Response(0, "", "")
NoExchange == [req |-> Request("", "", "", NoHeader, FALSE, NoRet), resp |-> NoResponse]
Pending(q) == [req |-> q, resp |-> NoResponse]

\* the server answers the request that has arrived
Serve ==
    /\ http # NoExchange
    /\ http.resp = NoResponse
    /\ http' = [http EXCEPT !.resp = Respond(http.req)]
    /\ UNCHANGED <<readAt, variant, now, cache, mu, redis, db, nextId, fr, origin, last, invalFault, ncalls, novl>>

\* ------------------------------------------------------------------ specification
\* the state after construction: the decorator just built around its wrapped
\* repository, an empty cache, one movie in the table
InitStores ==
    /\ variant \in {"tmdb", "postgres"}
    /\ now = 0
    /\ cache = NewCacheAdapter
    /\ mu = ""
    /\ redis = [k \in RedisKeys |-> NoValue]
    /\ db = [i \in Ids |-> IF i = 1 THEN [found |-> TRUE, row |-> InitRow]
                                    ELSE NoRow]
    /\ nextId = 2
    /\ origin = [k \in RedisKeys |-> NilMovie]
    /\ last = NoCall
    /\ invalFault = FALSE
    /\ readAt = [k \in Titles \cup RedisKeys |-> 0]
    /\ ncalls = 0
    /\ novl = 0
    /\ fr = [p \in Procs |-> IdleFrame]

Init == InitStores /\ http = NoExchange

\* one step of goroutine p inside a call
Step(p) ==
    \/ \E t \in Titles : Call_SearchMovie(p, t)
    \/ SearchMovie_Lock1(p)
    \/ SearchMovie_Read(p)
    \/ SearchMovie_Check(p)
    \/ SearchMovie_Next(p)
    \/ SearchMovie_Lock2(p)
    \/ SearchMovie_Write(p)
    \/ \E i \in Ids : Call_GetMovieByID(p, i)
    \/ GetMovieByID_Get(p)
    \/ GetMovieByID_Next(p)
    \/ GetMovieByID_Set(p)
    \/ \E i \in Ids, m \in MovieArgs : Call_UpdateMovie(p, i, m)
    \/ UpdateMovie_Next(p)
    \/ UpdateMovie_Del(p)
    \/ \E i \in Ids : Call_DeleteMovie(p, i)
    \/ DeleteMovie_Next(p)
    \/ DeleteMovie_Del(p)
    \/ \E m \in MovieArgs : Call_CreateMovie(p, m)
    \/ CreateMovie_Next(p)
    \/ Call_GetAllMovies(p)
    \/ GetAllMovies_Next(p)

\* a call that has executed its return statement returns before anything else
\* happens: the return touches nothing shared
Returning == {p \in Procs : fr[p].pc = "done"}

Next ==
    \/ \E p \in Procs : Return(p)
    \/ Returning = {} /\ Tick
    \/ Returning = {} /\ \E p \in Procs : Step(p)

\* goroutines call the shared decorator concurrently
Spec == Init /\ [][Next]_vars

\* one caller at a time: a call is entered only after the previous one has returned
Sequential == Cardinality(InFlight) <= 1
SeqNext == Next /\ Sequential'
SpecSeq == Init /\ [][SeqNext]_vars

\* goroutines call one shared CacheAdapter concurrently
InitCache == Init /\ variant = "tmdb"
SpecCache == InitCache /\ [][Next]_vars

\* the scheduler runs goroutine p: its call, if it is in one, takes its next step
\* or returns (entering a call is the caller's choice, not the scheduler's)
Run(p) ==
    \/ Return(p)
    \/ (Returning = {} /\ fr[p].pc # "idle" /\ Step(p))

\* goroutine p acquires the mutex
Acquire(p) == Returning = {} /\ (SearchMovie_Lock1(p) \/ SearchMovie_Lock2(p))

\* fair scheduling: a goroutine that can run does run, and sync.Mutex hands the
\* mutex to a goroutine that keeps waiting for it (starvation mode)
Fairness == \A p \in Procs : WF_vars(Run(p)) /\ SF_vars(Acquire(p))

\* concurrent callers of either decorator under fair scheduling; behind
\* RedisCacheAdapter, whose methods share no lock, LiveCalls calls are entered
LiveNext == Next /\ (variant = "postgres" => ncalls' <= LiveCalls)
SpecLive == Init /\ [][LiveNext]_vars /\ Fairness

\* requests answered one after another by the router, the middleware and the
\* handlers
InitHttp == InitStores /\ http \in {Pending(q) : q \in Requests}
SpecHttp == InitHttp /\ [][Serve]_vars

\* ------------------------------------------------------------------ properties
FetchOps == {"SearchMovie", "GetMovieByID"}
WriteOps == {"UpdateMovie", "DeleteMovie"}

\* p's call has executed its return statement
Done(p) == fr[p].pc = "done"
FetchDone(p) == Done(p) /\ fr[p].op \in FetchOps
WriteDone(p) == Done(p) /\ fr[p].op \in WriteOps

\* at its lookup the call found an entry for its key whose age was below the TTL
LookupFresh(f) == f.seen.found /\ f.at - f.seen.writtenAt < TTL

\* at its lookup the call found an entry for its key whose age had reached the TTL
LookupExpired(f) == f.seen.found /\ f.at - f.seen.writtenAt >= TTL

\* the call returned before f was entered was operation op on f's key
After(f, ops) ==
    /\ f.prev.op \in ops
    /\ f.prev.title = f.title
    /\ f.prev.id = f.id

\* the stores are as they were when p's call was entered
StoreUntouched(p) == <<cache, redis>> = fr[p].snap

\* ---- C1
\* C1 (as the code has it): a fetch whose lookup finds an entry for its key with
\* age below the TTL, and whose cache read does not fail, returns the entity the
\* entry was written from and makes no call to the wrapped repository.
C1_HitWithinTTL ==
    \A p \in Procs :
        (FetchDone(p) /\ LookupFresh(fr[p]) /\ ~fr[p].readFault)
            => (fr[p].calls = 0 /\ fr[p].ret = Ret(fr[p].seen.movie, Nil))

\* a second fetch of the key, after a fetch of it that succeeded, served from the
\* entry that fetch left
C1_Witness ==
    \E p \in Procs :
        /\ FetchDone(p)
        /\ LookupFresh(fr[p])
        /\ ~fr[p].readFault
        /\ After(fr[p], FetchOps)
        /\ fr[p].prev.ok
        /\ fr[p].hit
        /\ ~fr[p].ret.movie.nil

\* C1 as stated: every fetch issued while the entry's age is below the TTL returns
\* the identical entity with zero calls to the wrapped repository.
C1_AsStated ==
    \A p \in Procs :
        (FetchDone(p) /\ LookupFresh(fr[p]))
            => (fr[p].calls = 0 /\ fr[p].ret = Ret(fr[p].seen.movie, Nil))

\* ---- C2
\* p's SearchMovie has found an entry whose age had reached the TTL
C2_Case(p) == Done(p) /\ fr[p].op = "SearchMovie" /\ LookupExpired(fr[p])

\* C2: a SearchMovie whose lookup finds an entry whose age has reached the TTL calls
\* the wrapped provider; on success the entry for the title is overwritten with the
\* entity just fetched and the time of the write, which is later than the old
\* timestamp; on failure the expired entry stays as it is.
C2_MissAfterTTL ==
    \A p \in Procs :
        C2_Case(p)
            => /\ fr[p].calls = 1
               /\ ~fr[p].hit
               /\ (fr[p].ret.err = Nil)
                     => (/\ fr[p].ret = fr[p].nextRet
                         /\ cache[fr[p].title] = Entry(fr[p].ret.movie, now)
                         /\ now > fr[p].seen.writtenAt)
               /\ (fr[p].ret.err # Nil) => StoreUntouched(p)

\* an expired entry replaced by an entity that differs from the one it held
C2_Witness ==
    \E p \in Procs :
        /\ C2_Case(p)
        /\ fr[p].ret.err = Nil
        /\ fr[p].ret.movie # fr[p].seen.movie
        /\ cache[fr[p].title].createdAt > fr[p].seen.writtenAt

\* ---- C3
\* p's fetch has got an error from the wrapped repository
C3_Failed(p) == FetchDone(p) /\ fr[p].calls = 1 /\ fr[p].nextRet.err # Nil

\* p's fetch follows a fetch of the same key that returned an error
C3_Retry(p) == FetchDone(p) /\ After(fr[p], FetchOps) /\ ~fr[p].prev.ok

C4_Case(p) ==
    FetchDone(p) /\ After(fr[p], {"UpdateMovie"}) /\ fr[p].prev.ok /\ fr[p].prev.cached

\* the fetch went to the wrapped repository and, on success, returns the updated row
C4_PostUpdate(p) ==
    /\ fr[p].calls = 1
    /\ ~fr[p].hit
    /\ (fr[p].ret.err = Nil) => (fr[p].ret.movie = PgMovie(fr[p].id, RowOf(fr[p].prev.arg)))

\* C4 (as the code has it): a fetch that follows a successful update of its key,
\* made while the key was cached and whose DEL did not fault, is not served from
\* the cache: it calls the wrapped repository and, on success, returns the row the
\* update wrote.
C4_InvalidateOnUpdate ==
    \A p \in Procs : (C4_Case(p) /\ ~fr[p].prev.fault) => C4_PostUpdate(p)

\* fetch, update, fetch: the last fetch returns the updated row
C4_Witness ==
    \E p \in Procs :
        /\ C4_Case(p)
        /\ ~fr[p].prev.fault
        /\ fr[p].ret.err = Nil
        /\ fr[p].ret.movie = PgMovie(fr[p].id, RowOf(fr[p].prev.arg))
        /\ fr[p].ret.movie # PgMovie(fr[p].id, InitRow)

\* C4 as stated: after fetch, successful update, the next fetch always calls the
\* wrapped repository and never returns the cached pre-update value.
C4_AsStated ==
    \A p \in Procs : C4_Case(p) => C4_PostUpdate(p)

\* ---- C5
\* p's fetch follows a successful delete of its key, made while the key was cached
C5_Case(p) ==
    FetchDone(p) /\ After(fr[p], {"DeleteMovie"}) /\ fr[p].prev.ok /\ fr[p].prev.cached

\* the fetch went to the wrapped repository and returns its error, no entity
C5_NotFromCache(p) ==
    /\ fr[p].calls = 1
    /\ ~fr[p].hit
    /\ fr[p].ret = Ret(NilMovie, fr[p].nextRet.err)
    /\ fr[p].ret.err \in {ErrNotFound} \cup PgFaults

\* C5 (as the code has it): a fetch that follows a successful delete of its key,
\* made while the key was cached and whose DEL did not fault, is not served from
\* the cache: it calls the wrapped repository and returns its error, no entity.
C5_InvalidateOnDelete ==
    \A p \in Procs : (C5_Case(p) /\ ~fr[p].prev.fault) => C5_NotFromCache(p)

\* fetch, delete, fetch: the last fetch reports that the movie is not found
C5_Witness ==
    \E p \in Procs :
        /\ C5_Case(p)
        /\ ~fr[p].prev.fault
        /\ fr[p].ret.err = ErrNotFound

\* C5 as stated: after fetch, successful delete, the next fetch always calls the
\* wrapped repository and does not return the deleted entity from the cache.
C5_AsStated ==
    \A p \in Procs : C5_Case(p) => C5_NotFromCache(p)

\* ---- C6
\* p's update or delete has got an error from the wrapped repository
C6_Failed(p) == WriteDone(p) /\ fr[p].calls = 1 /\ fr[p].nextRet.err # Nil

\* p's fetch follows a failed update or delete of its key, made while the key was
\* cached, and has found the entry within its TTL
C6_Case(p) ==
    /\ FetchDone(p)
    /\ After(fr[p], WriteOps)
    /\ ~fr[p].prev.ok
    /\ fr[p].prev.cached
    /\ LookupFresh(fr[p])

\* the fetch is served the entry, the value from before the failed write
C6_Served(p) ==
    /\ fr[p].hit
    /\ fr[p].calls = 0
    /\ fr[p].ret = Ret(fr[p].seen.movie, Nil)

\* the failed write returned the repository's error and did not touch the cache
C6_Untouched(p) ==
    /\ fr[p].ret.err = fr[p].nextRet.err
    /\ fr[p].cacheOps = 0
    /\ StoreUntouched(p)

\* C6 (as the code has it): an update or delete whose wrapped call fails returns
\* that error, sends no command to the cache and leaves the stores as they were;
\* a following fetch of the key that finds the entry within its TTL, and whose
\* cache read does not fail, is served the entry with no call to the repository.
C6_FailedWriteLeavesCache ==
    \A p \in Procs :
        /\ C6_Failed(p) => C6_Untouched(p)
        /\ (C6_Case(p) /\ ~fr[p].readFault) => C6_Served(p)

\* a fetch served from the cache right after a failed update of a cached key: it
\* returns the row from before the update, not the one the update carried
C6_Witness ==
    \E p \in Procs :
        /\ C6_Case(p)
        /\ fr[p].prev.op = "UpdateMovie"
        /\ fr[p].hit
        /\ fr[p].ret.movie = PgMovie(fr[p].id, InitRow)
        /\ fr[p].ret.movie # PgMovie(fr[p].id, RowOf(fr[p].prev.arg))

\* C6 as stated: after a failed update or delete, every following fetch of the key
\* within the TTL is served from the cache.
C6_AsStated ==
    \A p \in Procs :
        /\ C6_Failed(p) => C6_Untouched(p)
        /\ C6_Case(p) => C6_Served(p)

\* ---- C7
\* the goroutines inside a critical section of SearchMovie (between Lock and Unlock)
InMap == {p \in Procs : fr[p].op = "SearchMovie" /\ fr[p].pc \in {"read", "write"}}

\* p's SearchMovie has returned no error
C7_Ok(p) == Done(p) /\ fr[p].op = "SearchMovie" /\ fr[p].ret.err = Nil

\* C7 (as the code has it): among concurrent SearchMovie calls each call reaches
\* the wrapped provider at most once, at most one goroutine is at the map at a
\* time and it holds the mutex, and a call that returns no error returns an entity
\* of the catalog; a call that went to the provider and returned no error leaves
\* the map with an entry for its title holding such an entity.
C7_ConcurrentMiss ==
    /\ Cardinality(InMap) <= 1
    /\ \A p \in InMap : mu = p
    /\ \A p \in Procs : (fr[p].op = "SearchMovie") => (fr[p].calls <= 1)
    /\ \A p \in Procs : C7_Ok(p) => (fr[p].ret.movie \in CatalogAnswers(fr[p].title))
    /\ \A p \in Procs :
          (C7_Ok(p) /\ fr[p].calls = 1)
              => (/\ cache[fr[p].title].found
                  /\ cache[fr[p].title].movie \in CatalogAnswers(fr[p].title))

\* two overlapping SearchMovie calls for one uncached title that both went to the
\* provider and both succeeded: the second is returning, the first has returned
C7_Witness ==
    \E p \in Procs :
        /\ C7_Ok(p)
        /\ ~fr[p].alone
        /\ ~fr[p].cached
        /\ fr[p].calls = 1
        /\ last.op = "SearchMovie"
        /\ last.title = fr[p].title
        /\ last.ok
        /\ ~last.cached
        /\ ncalls = 2
        /\ cache[fr[p].title].found

\* C7 as stated: every one of the concurrent calls for an uncached key returns a
\* valid entity, and the store holds an entry for the key afterwards.
C7_AsStated ==
    \A p \in Procs :
        (Done(p) /\ fr[p].op = "SearchMovie" /\ ~fr[p].cached)
            => (/\ fr[p].ret.err = Nil
                /\ fr[p].ret.movie \in CatalogAnswers(fr[p].title)
                /\ cache[fr[p].title].found)

\* ---- C8
\* p's fetch by id was entered after every other call had returned, no call ran
\* beside it, no DEL has faulted in the run, and it is served from the cache
C8_Case(p) ==
    /\ FetchDone(p)
    /\ fr[p].op = "GetMovieByID"
    /\ fr[p].hit
    /\ fr[p].alone
    /\ ~invalFault

\* C8 as stated: once every update and delete has returned, a fetch that starts
\* afterwards and is served from the cache returns what the repository holds for
\* the id, never data from before a mutation.
C8_NoStaleAfterMutation ==
    \A p \in Procs :
        C8_Case(p)
            => (/\ db[fr[p].id].found
                /\ fr[p].ret.movie = PgMovie(fr[p].id, db[fr[p].id].row))

\* ---- C9
\* p's update or delete succeeded in the repository and its DEL faulted
C9_Case(p) == WriteDone(p) /\ fr[p].calls = 1 /\ fr[p].nextRet.err = Nil /\ fr[p].fault

\* C9: an update or delete whose wrapped call succeeds and whose DEL faults returns
\* no error.
C9_InvalidationNonFatal ==
    \A p \in Procs : C9_Case(p) => (fr[p].ret.err = Nil)

\* an update of a cached key whose DEL faulted: the entry is still there, the call
\* returns nil
C9_Witness ==
    \E p \in Procs :
        /\ C9_Case(p)
        /\ fr[p].cached
        /\ redis[CacheKey(fr[p].id)].found
        /\ fr[p].ret.err = Nil

\* ---- C10
\* C10: CreateMovie and GetAllMovies return exactly what the wrapped repository
\* returned to their one call of it, send no command to the cache and leave the
\* stores as they were, whatever the outcome.
C10_PassThrough ==
    \A p \in Procs :
        (Done(p) /\ fr[p].op \in {"CreateMovie", "GetAllMovies"})
            => (/\ fr[p].ret = fr[p].nextRet
                /\ fr[p].calls = 1
                /\ fr[p].cacheOps = 0
                /\ StoreUntouched(p))

\* a create that succeeded while the keyspace held an entry, and left it alone
C10_Witness ==
    \E p \in Procs :
        /\ Done(p)
        /\ fr[p].op = "CreateMovie"
        /\ fr[p].ret.err = Nil
        /\ fr[p].ret.id \in Ids
        /\ \E k \in RedisKeys : redis[k].found
        /\ StoreUntouched(p)

\* ---- C11
\* p's fetch, update or delete has got an error from the wrapped repository
C11_Failed(p) ==
    Done(p) /\ fr[p].op \in FetchOps \cup WriteOps /\ fr[p].calls = 1 /\ fr[p].nextRet.err # Nil

\* C11: a fetch, update or delete whose call to the wrapped repository returned an
\* error returns that same error value and no entity; the service's GetMovie,
\* handed the error by SearchMovie, returns it unchanged with no data.
C11_ErrorPropagation ==
    \A p \in Procs :
        C11_Failed(p)
            => (/\ fr[p].ret = Ret(NilMovie, fr[p].nextRet.err)
                /\ (fr[p].op = "SearchMovie")
                      => (GetMovie(fr[p].ret) = [data |-> NoData, err |-> fr[p].nextRet.err]))

\* a SearchMovie that failed with NotFound right after a SearchMovie that had failed
\* too: the service hands the error on as it is
C11_Witness ==
    \E p \in Procs :
        /\ C11_Failed(p)
        /\ fr[p].op = "SearchMovie"
        /\ GetMovie(fr[p].ret).err = ErrNotFound
        /\ fr[p].prev.op = "SearchMovie"
        /\ ~fr[p].prev.ok

\* ---- C12
\* the request has been answered by the movie-read handler named, which called the
\* service and got error e from it
ReadFailed(handler, e) ==
    /\ http.resp # NoResponse
    /\ http.resp.handler = handler
    /\ handler = "GetMovieByID" => Atoi(http.req.seg).ok
    /\ http.req.out.err = e

Advised(r) ==
    /\ http.resp # NoResponse
    /\ http.resp.handler = "GetMovie"
    /\ http.req.out.err = Nil
    /\ http.req.out.movie.Rating = Rating(r)

\* C13: the advice in the answer is fixed by the rating alone: 7.5 and above gives
\* the favorable text, 5.0 up to but not including 7.5 the neutral text, below 5.0
\* the unfavorable text; the three texts differ, so exactly one band applies, and
\* the boundaries 7.5 and 5.0 belong to the upper band.
C13_AdviceBands ==
    /\ Cardinality({AdviceFavorable, AdviceNeutral, AdviceUnfavorable}) = 3
    /\ \A r \in RatingSamples :
          Advised(r)
              => (/\ (r >= 75) => (http.resp.advice = AdviceFavorable)
                  /\ (r >= 50 /\ r < 75) => (http.resp.advice = AdviceNeutral)
                  /\ (r < 50) => (http.resp.advice = AdviceUnfavorable))

\* a movie rated exactly 5.0 answered with the neutral text
C13_Witness ==
    /\ Advised(50)
    /\ http.resp.advice = AdviceNeutral
    /\ http.resp.status = StatusOK

\* ---- C14
\* a request of the repository-backed deployment has been answered
Answered == http.resp # NoResponse /\ variant = "postgres"

\* the request is one of POST /movies, PUT /movies/{id}, DELETE /movies/{id}
Mutation(q) ==
    \/ (q.method = "POST" /\ q.path = "/movies")
    \/ (q.method = "PUT" /\ q.path = "/movies/{id}")
    \/ (q.method = "DELETE" /\ q.path = "/movies/{id}")

\* the Authorization header is exactly "Bearer <token>" with a token that
\* ValidateToken accepts
BearerOK(h) ==
    /\ h.n = 2
    /\ h.scheme = "Bearer"
    /\ h.token.alg = "HS256" /\ h.token.signed /\ ~h.token.expired /\ h.token.sub = "number"

\* C14: a mutation request reaches its movie handler only with a header that is
\* exactly "Bearer <token>" and a token ValidateToken accepts; with any other
\* header the answer is 401 and no movie handler runs; GET /movies and
\* GET /movies/{id} reach their handlers whatever the header, also without one.
C14_BearerGate ==
    Answered
        => (/\ (Mutation(http.req) /\ http.resp.handler # "") => BearerOK(http.req.header)
            /\ (Mutation(http.req) /\ ~BearerOK(http.req.header))
                  => (http.resp.status = StatusUnauthorized /\ http.resp.handler = "")
            /\ (Mutation(http.req) /\ BearerOK(http.req.header))
                  => (http.resp.handler \in {"CreateMovie", "UpdateMovie", "DeleteMovie"})
            /\ (http.req.method = "GET" /\ http.req.path = "/movies")
                  => (http.resp.handler = "GetAllMovies")
            /\ (http.req.method = "GET" /\ http.req.path = "/movies/{id}")
                  => (http.resp.handler = "GetMovieByID"))

\* a DELETE carrying a well-formed header with an expired token, turned away
C14_Witness ==
    /\ Answered
    /\ http.req.method = "DELETE"
    /\ http.req.path = "/movies/{id}"
    /\ http.req.header = Header(2, "Bearer", Token("HS256", TRUE, TRUE, "number"))
    /\ http.resp.status = StatusUnauthorized
    /\ http.resp.handler = ""

\* ---- C15
\* what PostgresAdapter, called directly, can answer to p's call on the table as
\* it is now
RawAnswers(p) ==
    CASE fr[p].op = "GetMovieByID" -> PgGetMovieByID(fr[p].id)
      [] fr[p].op = "GetAllMovies" -> PgGetAllMovies
      [] OTHER -> {fr[p].nextRet}

\* C15: with one caller at a time, every mutation made through the decorator and
\* no faulted invalidation, each call of RedisCacheAdapter returns what
\* PostgresAdapter itself answers to the same call: GetMovieByID, from the keyspace
\* or not, returns the row as the table holds it (or the table's error), and
\* GetAllMovies, CreateMovie, UpdateMovie and DeleteMovie return the answer of the one
\* call they pass on.
C15_Transparent ==
    \A p \in Procs :
        (Done(p) /\ variant = "postgres" /\ ~invalFault)
            => (/\ fr[p].ret \in RawAnswers(p)
                /\ (fr[p].op # "GetMovieByID") => (fr[p].calls = 1))

\* a hit that returns the row as an earlier update left it
C15_Witness ==
    \E p \in Procs :
        /\ Done(p) /\ variant = "postgres" /\ ~invalFault
        /\ fr[p].op = "GetMovieByID" /\ fr[p].hit
        /\ fr[p].calls = 0
        /\ fr[p].ret.movie.Title # InitRow.Title

\* ---- C16
\* p's call is inside a.next.SearchMovie
Upstream(p) == fr[p].op = "SearchMovie" /\ fr[p].pc = "next"

C17_EntryOk(t) ==
    cache[t].found
        => (/\ cache[t].movie \in CatalogAnswers(t)
            /\ readAt[t] >= cache[t].createdAt)

\* the document under movie:<id> encodes a row read for this id, read no earlier
\* than the time the key was set
C17_ValueOk(i) ==
    redis[CacheKey(i)].found
        => (/\ jsonMarshal(origin[CacheKey(i)]).data = redis[CacheKey(i)].data
            /\ origin[CacheKey(i)].ID = i
            /\ readAt[CacheKey(i)] >= redis[CacheKey(i)].setAt)

\* C17: in every reachable state each entry of the store holds an entity returned
\* by a successful read of its key from the wrapped repository, and that read took
\* place no earlier than the entry's stored timestamp.
C17_Provenance ==
    /\ \A t \in Titles : C17_EntryOk(t)
    /\ \A i \in Ids : C17_ValueOk(i)

\* the part of C17 that the stores do satisfy: what an entry holds was read for
\* its key, at or before the entry's timestamp
C17_ReadBeforeStamp ==
    /\ \A t \in Titles :
          cache[t].found
              => (cache[t].movie \in CatalogAnswers(t) /\ readAt[t] <= cache[t].createdAt)
    /\ \A i \in Ids :
          redis[CacheKey(i)].found
              => (/\ jsonMarshal(origin[CacheKey(i)]).data = redis[CacheKey(i)].data
                  /\ origin[CacheKey(i)].ID = i
                  /\ readAt[CacheKey(i)] <= redis[CacheKey(i)].setAt)

\* ---- C18
\* the key of p's fetch in readAt
FetchKey(p) == IF fr[p].op = "SearchMovie" THEN fr[p].title ELSE CacheKey(fr[p].id)

\* C18: with one caller at a time, an entity returned from the store by a fetch of
\* K was the wrapped repository's answer for K at an instant less than one TTL
\* before the call returns, whatever time passed between the upstream answer and
\* the taking of the entry's timestamp. (A miss returns the answer of the upstream
\* call made within the call itself.)
C18_BoundedStaleness ==
    \A p \in Procs :
        (FetchDone(p) /\ fr[p].hit /\ fr[p].ret.err = Nil)
            => (now - readAt[FetchKey(p)] < TTL)

\* what the store does bound: the time since the entry's timestamp
C18_BoundedSinceStamp ==
    \A p \in Procs :
        (FetchDone(p) /\ fr[p].hit /\ fr[p].ret.err = Nil)
            => (now - fr[p].seen.writtenAt < TTL)

\* ---- C19
\* p's call has been entered and has not executed its return statement
Running(p) == fr[p].pc \notin {"idle", "done"}

\* C19: with every call to the wrapped repository returning and fair scheduling of
\* the concurrent callers, every call of the decorator that has been entered
\* eventually returns; a goroutine that is not between Lock and Unlock does not
\* hold the mutex, so it is released on the hit path, on the upstream-error path
\* and after the store; and in every state with a call in flight some goroutine can
\* take a step.
C19_NoBlocking ==
    /\ [](\A p \in Procs : (fr[p].pc \notin {"read", "write"}) => (mu # p))
    /\ []((\E p \in Procs : Running(p)) => (\E p \in Procs : ENABLED Run(p)))
    /\ \A p \in Procs : Running(p) ~> Done(p)

\* a goroutine back from the wrapped provider waits for the mutex that another
\* goroutine holds for its map access
C19_Witness ==
    \E p, q \in Procs :
        /\ p # q
        /\ fr[p].op = "SearchMovie" /\ fr[p].pc = "lock2"
        /\ mu = q
        /\ fr[q].pc \in {"read", "write"}

\* ---- C20
\* p's GetMovieByID missed, got the row from the wrapped repository and then failed
\* to encode it or to SET it
C20_Faulted(p) ==
    /\ Done(p) /\ fr[p].op = "GetMovieByID"
    /\ fr[p].calls = 1 /\ fr[p].nextRet.err = Nil
    /\ fr[p].writeFault

\* p's GetMovieByID follows a GetMovieByID of its id that returned the fetched row
\* after a failure to encode or to SET it
C20_Case(p) ==
    /\ Done(p) /\ fr[p].op = "GetMovieByID"
    /\ After(fr[p], {"GetMovieByID"})
    /\ fr[p].prev.ok
    /\ fr[p].prev.writeFault

\* C20 (as the code has it): a GetMovieByID whose wrapped fetch succeeds and whose
\* encoding or SET fails returns the fetched row with no error and leaves the
\* keyspace as it was on entry; the next fetch of the id calls the wrapped repository
\* again unless the keyspace held an unexpired entry for the id when the faulted
\* call was entered, and a fetch that does not call it returns that older entry.
C20_WriteFaultNonFatal ==
    \A p \in Procs :
        /\ C20_Faulted(p) => (fr[p].ret = Ret(fr[p].nextRet.movie, Nil) /\ StoreUntouched(p))
        /\ (C20_Case(p) /\ ~fr[p].prev.cached) => (fr[p].calls = 1 /\ ~fr[p].hit)
        /\ (C20_Case(p) /\ fr[p].calls = 0)
              => (fr[p].hit /\ fr[p].ret = Ret(fr[p].seen.movie, Nil))

\* a fetch after a fetch of the same id whose SET faulted on an empty keyspace:
\* it goes to the repository again
C20_Witness ==
    \E p \in Procs :
        /\ C20_Case(p)
        /\ fr[p].prev.fault
        /\ ~fr[p].prev.cached
        /\ ~fr[p].seen.found
        /\ fr[p].calls = 1
        /\ fr[p].ret.err = Nil

\* C20 as stated: after a fetch that returned the row but failed to encode or
\* store it, the next fetch of the id always calls the wrapped repository.
C20_AsStated ==
    \A p \in Procs :
        /\ C20_Faulted(p) => (fr[p].ret = Ret(fr[p].nextRet.movie, Nil) /\ StoreUntouched(p))
        /\ C20_Case(p) => (fr[p].calls = 1)

\* ---- C21
\* p's GetMovieByID has returned after a cache read that failed: the GET faulted,
\* or the value under the key did not decode
C21_Case(p) == Done(p) /\ fr[p].op = "GetMovieByID" /\ fr[p].readFault

\* the key of p's call holds the document of the movie the call returned, set now
C21_Overwritten(p) ==
    /\ redis[CacheKey(fr[p].id)] = Value(jsonMarshal(fr[p].ret.movie).data, now, TTL)
    /\ origin[CacheKey(fr[p].id)] = fr[p].ret.movie

\* C21 (as the code has it): a GetMovieByID whose cache read faults or yields a
\* value that does not decode calls the wrapped repository once and returns its
\* result, entity or error; when the repository succeeds and the entity is encoded
\* and SET without failure the entry for the id is overwritten with it, otherwise
\* the keyspace stays as it was on entry; and a GetMovieByID returns an error only
\* if its call to the wrapped repository returned that error.
C21_ReadFaultIsMiss ==
    \A p \in Procs :
        /\ C21_Case(p)
              => (/\ fr[p].calls = 1
                  /\ ~fr[p].hit
                  /\ fr[p].ret = fr[p].nextRet
                  /\ (fr[p].ret.err = Nil /\ ~fr[p].writeFault) => C21_Overwritten(p)
                  /\ (fr[p].ret.err # Nil \/ fr[p].writeFault) => StoreUntouched(p))
        /\ (Done(p) /\ fr[p].op = "GetMovieByID" /\ fr[p].ret.err # Nil)
              => (fr[p].calls = 1 /\ fr[p].nextRet.err = fr[p].ret.err)

\* an unexpired value that does not decode: the GET itself succeeds, the call goes
\* to the repository, returns the row and sets the key again
C21_Witness ==
    \E p \in Procs :
        /\ C21_Case(p)
        /\ ~fr[p].fault
        /\ LookupFresh(fr[p])
        /\ fr[p].ret.err = Nil
        /\ C21_Overwritten(p)

\* C21 as stated: after a failed cache read, whenever the repository succeeds the
\* entry for the id is overwritten.
C21_AsStated ==
    \A p \in Procs :
        /\ C21_Case(p)
              => (/\ fr[p].calls = 1
                  /\ fr[p].ret = fr[p].nextRet
                  /\ (fr[p].ret.err = Nil) => C21_Overwritten(p))
        /\ (Done(p) /\ fr[p].op = "GetMovieByID" /\ fr[p].ret.err # Nil)
              => (fr[p].calls = 1 /\ fr[p].nextRet.err = fr[p].ret.err)

\* ---- C22
\* the keyspace as it was when p's call was entered
KeysOnEntry(p) == fr[p].snap[2]

\* p's call of RedisCacheAdapter has executed its return statement
C22_Case(p) == Done(p) /\ variant = "postgres"

\* C22: with one caller at a time, a call of RedisCacheAdapter on id K leaves the
\* value of every key other than movie:<K> as it was on entry; UpdateMovie(K) and
\* DeleteMovie(K) leave movie:<K> as it was or unset, CreateMovie and GetAllMovies
\* leave every key as it was; and two different ids never share a key.
C22_PerKey ==
    /\ \A i, j \in Ids : (i # j) => (CacheKey(i) # CacheKey(j))
    /\ \A p \in Procs :
          C22_Case(p)
              => (/\ \A i \in Ids :
                        (i # fr[p].id) => (redis[CacheKey(i)] = KeysOnEntry(p)[CacheKey(i)])
                  /\ (fr[p].op \in WriteOps)
                        => (redis[CacheKey(fr[p].id)] \in {KeysOnEntry(p)[CacheKey(fr[p].id)], NoValue})
                  /\ (fr[p].op \in {"CreateMovie", "GetAllMovies"}) => (redis = KeysOnEntry(p)))

\* a delete of one id has sent its DEL while the unexpired entry of another id,
\* written by an earlier fetch, is still in place
C22_Witness ==
    \E p \in Procs : \E i \in Ids :
        /\ C22_Case(p)
        /\ fr[p].op = "DeleteMovie"
        /\ fr[p].cacheOps = 1 /\ ~fr[p].fault
        /\ i # fr[p].id
        /\ Live(redis[CacheKey(i)], now)
        /\ redis[CacheKey(i)] = KeysOnEntry(p)[CacheKey(i)]

====
